---- MODULE Spec2Model ----
(***************************************************************************)
(* A model of the montecarlo package: Die (die.py), Game (game.py) and     *)
(* Analyzer (analyzer.py).  Faces are integers (as in tests.py:135), a     *)
(* DataFrame is a record of column labels and rows, and an exception is    *)
(* the string of its class and message.                                    *)
(***************************************************************************)
EXTENDS Integers, Sequences, FiniteSets, TLC

\* ---------------------------------------------------------------- bounds
\* most rolls asked of a die or a game in one call
MaxRolls == 2
\* most rounds of a table handed to the Analyzer
MaxRounds == 3
\* largest weight a caller stores (the smallest is -1)
MaxWeight == 1

\* longest list handed to Game(dice)
MaxDice == 2

\* the Die objects of the program
DieIds == {1, 2}
\* arrays handed to Die(faces); the last one holds a duplicate
FaceArrays == {<<1, 2>>, <<2, 1>>, <<1, 2, 3>>, <<1, 1>>}
\* numbers a caller stores as weights
WeightVals == -1 .. MaxWeight
\* values handed to change_weight as new_weight: numbers and the string 'high'
WeightArgs == [type : {"int"}, v : WeightVals] \cup {[type |-> "str", v |-> 0]}
\* values handed to change_weight as face (0 is a face of no die)
FaceArgs == {0, 1, 2, 3}
\* values handed to roll and play as num_rolls
RollArgs == -1 .. MaxRolls
\* elements of a list handed to Game(dice): Die objects and the string 'not_a_die'
DiceElems == [type : {"Die"}, id : DieIds] \cup {[type |-> "str", id |-> 0]}
\* lists handed to Game(dice)
DiceArgs == UNION {[1 .. k -> DiceElems] : k \in 0 .. MaxDice}
\* values handed to show_results as form
FormArgs == {"wide", "narrow", "long"}

\* faces, die_df: the fields of every Die; dice, play_results: the fields of
\* the Game; ret: the last call, its arguments and what it returned or raised;
\* last_play: a history of the last play that returned (n = 0: none yet)
VARIABLES faces, die_df, dice, play_results, ret, last_play
vars == <<faces, die_df, dice, play_results, ret, last_play>>

\* -------------------------------------------------------------- helpers
Range(s) == {s[i] : i \in DOMAIN s}

RECURSIVE SumOver(_, _)
SumOver(f, S) ==
    IF S = {} THEN 0
    ELSE LET x == CHOOSE y \in S : TRUE IN f[x] + SumOver(f, S \ {x})

\* Python's None
None == [none |-> TRUE]
IsNone(x) == "none" \in DOMAIN x
\* no play of the current Game has returned yet
NoPlay == [n |-> 0, val |-> None]

\* ----------------------------------------------------------- exceptions
NoErr == "ok"
Die_IndexError == "IndexError: Face not found in the die."
Die_TypeError == "TypeError: Weight must be a numeric value."
Die_ValueError == "ValueError: Number of rolls must be at least 1."
Numpy_ValueError == "ValueError: probabilities are not non-negative / contain NaN"
Game_TypeError == "TypeError: Input must be a list of Die objects."
Game_IndexError == "IndexError: list index out of range"
Game_FacesError == "ValueError: All dice must have the same number and identical faces."
Game_RollsError == "ValueError: Number of rolls must be at least 1. (play)"
Game_NoResultsError == "ValueError: No play results found. Please play the game first."
Game_FormError == "ValueError: Invalid option for 'form'. Choose 'wide' or 'narrow'."
NoneType_AttributeError == "AttributeError: 'NoneType' object has no attribute 'iterrows'"

\* the error kinds of the package, by the raise statement that reports them
NotFoundKind(e) == e = Die_IndexError
InvalidInputKind(e) == e \in {Die_TypeError, Die_ValueError, Game_RollsError, Game_FormError}
TypeMismatchKind(e) == e = Game_TypeError
ConsistencyKind(e) == e = Game_FacesError
StateKind(e) == e = Game_NoResultsError

\* ------------------------------------------------------------------ Die
\* Die.__init__: faces must be distinct; every face gets weight 1.0
DieInitOk(fs) == Len(fs) = Cardinality(Range(fs))
DieInitDf(fs) == [f \in Range(fs) |-> 1]

\* isinstance(new_weight, (int, float))
IsNumber(w) == w.type \in {"int", "float"}

\* a mutant of SetAt: the assignment lands on every row
SetAtAll(df, face, w) == [f \in DOMAIN df |-> w]
\* self._die_df.at[face, 'weights'] = new_weight
SetAt(df, face, w) == [df EXCEPT ![face] = w]

\* the checks of change_weight, in the code's order
ChangeWeightErr(d, face, w) ==
    IF face \notin Range(faces[d]) THEN Die_IndexError
    ELSE IF ~IsNumber(w) THEN Die_TypeError
    ELSE NoErr

\* Die.show: a copy of the frame
Show(d) == die_df[d]

\* Die.change_weight
ChangeWeight(d, face, w) ==
    LET e == ChangeWeightErr(d, face, w) IN
    /\ die_df' = IF e = NoErr
                 THEN [die_df EXCEPT ![d] = SetAt(die_df[d], face, w.v)]
                 ELSE die_df
    /\ ret' = [op |-> "change_weight", die |-> d, face |-> face, w |-> w,
               err |-> e, pre |-> Show(d)]
    /\ UNCHANGED <<faces, dice, play_results, last_play>>

\* p = weights / weights.sum(), as np.random.choice accepts or rejects it:
\* a zero sum gives NaN, a weight whose sign differs from the sum's gives p < 0
ProbsValid(df) ==
    LET s == SumOver(df, DOMAIN df) IN
    /\ s # 0
    /\ \A f \in DOMAIN df : df[f] * s >= 0
\* the faces np.random.choice can return: those with p > 0
Support(df) ==
    LET s == SumOver(df, DOMAIN df) IN {f \in DOMAIN df : df[f] * s > 0}

\* the checks of roll, then those of np.random.choice
RollErr(d, n) ==
    IF n < 1 THEN Die_ValueError
    ELSE IF ~ProbsValid(die_df[d]) THEN Numpy_ValueError
    ELSE NoErr
\* the lists roll can return
RollOutcomes(d, n) == [1 .. n -> Support(die_df[d])]

\* Die.roll
Roll(d, n) ==
    LET e == RollErr(d, n) IN
    /\ \E out \in (IF e = NoErr THEN RollOutcomes(d, n) ELSE {<<>>}) :
          ret' = [op |-> "roll", die |-> d, n |-> n, err |-> e, val |-> out]
    /\ UNCHANGED <<faces, die_df, dice, play_results, last_play>>

\* Die.show, the copy handed to the caller
ShowDie(d) ==
    /\ ret' = [op |-> "show", die |-> d, err |-> NoErr, val |-> Show(d)]
    /\ UNCHANGED <<faces, die_df, dice, play_results, last_play>>

\* one die, constructed, no game yet
InitDie ==
    /\ faces \in [DieIds -> {fs \in FaceArrays : DieInitOk(fs)}]
    /\ faces[1] = faces[2]
    /\ die_df = [d \in DieIds |-> DieInitDf(faces[d])]
    /\ dice = <<>>
    /\ play_results = None
    /\ last_play = NoPlay
    /\ ret = [op |-> "init", err |-> NoErr]

NextDie ==
    \/ \E face \in FaceArgs, w \in WeightArgs : ChangeWeight(1, face, w)
    \/ \E n \in RollArgs : Roll(1, n)
    \/ ShowDie(1)

SpecDie == InitDie /\ [][NextDie]_vars

\* ------------------------------------------------------ claims on the Die
\* C1: after any successful change_weight calls, roll(n) with n >= 1 returns
\* exactly n values, each a face of the die; roll(0) and roll(-1) fail with
\* InvalidInputKind and return nothing.
C1_DrawReturnsN ==
    ret.op = "roll" =>
        /\ ret.n >= 1 =>
              /\ ret.err = NoErr
              /\ Len(ret.val) = ret.n
              /\ \A i \in 1 .. Len(ret.val) : ret.val[i] \in Range(faces[ret.die])
        /\ ret.n < 1 => (InvalidInputKind(ret.err) /\ ret.val = <<>>)

\* C2: change_weight is all-or-nothing: on success show() has the new weight
\* at that face and every other weight as before; it fails with NotFoundKind
\* for a face the die lacks and with InvalidInputKind for a weight that is no
\* number, and then no stored weight has changed.
C2_SetWeightAllOrNothing ==
    ret.op = "change_weight" =>
        LET d == ret.die
            known == ret.face \in Range(faces[d])
        IN  /\ (known /\ ret.w.type = "int") =>
                  /\ ret.err = NoErr
                  /\ Show(d)[ret.face] = ret.w.v
                  /\ \A f \in DOMAIN Show(d) \ {ret.face} : Show(d)[f] = ret.pre[f]
                  /\ DOMAIN Show(d) = DOMAIN ret.pre
            /\ ~known => (NotFoundKind(ret.err) /\ Show(d) = ret.pre)
            /\ (known /\ ret.w.type = "str") =>
                  (InvalidInputKind(ret.err) /\ Show(d) = ret.pre)

\* a successful change_weight that changed one weight while another face
\* held a weight other than the default
C2_Witness ==
    /\ ret.op = "change_weight"
    /\ ret.err = NoErr
    /\ ret.pre[ret.face] # ret.w.v
    /\ \E f \in DOMAIN ret.pre \ {ret.face} : ret.pre[f] # 1

\* ----------------------------------------------------------------- Game
\* a mutant of GameInitErr: the faces are compared as sets, not as lists
GameInitErrAsSets(arg) ==
    IF \E i \in DOMAIN arg : arg[i].type # "Die" THEN Game_TypeError
    ELSE IF Len(arg) = 0 THEN Game_IndexError
    ELSE IF \E i \in 2 .. Len(arg) :
              Range(faces[arg[i].id]) # Range(faces[arg[1].id])
         THEN Game_FacesError
    ELSE NoErr
\* the checks of Game.__init__, in the code's order; dice[0] of an empty list
\* raises IndexError
GameInitErr(arg) ==
    IF \E i \in DOMAIN arg : arg[i].type # "Die" THEN Game_TypeError
    ELSE IF Len(arg) = 0 THEN Game_IndexError
    ELSE IF \E i \in 2 .. Len(arg) : faces[arg[i].id] # faces[arg[1].id]
         THEN Game_FacesError
    ELSE NoErr

\* Game.__init__: a new Game takes the place of the one before
GameInit(arg) ==
    LET e == GameInitErr(arg) IN
    /\ IF e = NoErr
       THEN /\ dice' = [i \in DOMAIN arg |-> arg[i].id]
            /\ play_results' = None
            /\ last_play' = NoPlay
       ELSE UNCHANGED <<dice, play_results, last_play>>
    /\ ret' = [op |-> "Game", arg |-> arg, err |-> e]
    /\ UNCHANGED <<faces, die_df>>

\* str(i) for a column number
Str(i) == <<"0", "1", "2", "3", "4">>[i + 1]
\* columns=[str(i) for i in range(len(self.dice))]
PlayColumns == [i \in DOMAIN dice |-> Str(i - 1)]

\* the checks of play, then those of the first die.roll(1)
PlayErr(n) ==
    IF n < 1 THEN Game_RollsError
    ELSE IF \E i \in DOMAIN dice : RollErr(dice[i], 1) # NoErr
         THEN Numpy_ValueError
    ELSE NoErr
\* the rows one round of play can give: die.roll(1)[0] of every die, in order
PlayRows ==
    {r \in [DOMAIN dice -> UNION {Range(faces[d]) : d \in DieIds}] :
        \A i \in DOMAIN dice : \E o \in RollOutcomes(dice[i], 1) : r[i] = o[1]}
\* the frames play can build
PlayOutcomes(n) ==
    {[columns |-> PlayColumns, rows |-> t] : t \in [1 .. n -> PlayRows]}

\* the rounds of a stored table, 0 for None (the table a play found, in ret)
NumRows(df) == IF IsNone(df) THEN 0 ELSE Len(df.rows)

\* a mutant of StoreResults: the new rounds are appended to the old ones
StoreAppended(old, df) ==
    IF IsNone(old) THEN df
    ELSE [columns |-> df.columns, rows |-> old.rows \o df.rows]
\* self._play_results = pd.DataFrame(roll_results, ...)
StoreResults(old, df) == df

\* Game.play: the new frame is stored and the same object is returned
Play(n) ==
    LET e == PlayErr(n) IN
    /\ Len(dice) > 0
    /\ IF e = NoErr
       THEN \E df \in PlayOutcomes(n) :
              /\ play_results' = StoreResults(play_results, df)
              /\ last_play' = [n |-> n, val |-> df]
              /\ ret' = [op |-> "play", n |-> n, err |-> e, val |-> play_results',
                         pre_rows |-> NumRows(play_results)]
       ELSE /\ play_results' = play_results
            /\ last_play' = last_play
            /\ ret' = [op |-> "play", n |-> n, err |-> e, val |-> None,
                       pre_rows |-> NumRows(play_results), pre |-> play_results]
    /\ UNCHANGED <<faces, die_df, dice>>

\* pd.MultiIndex.from_product([['Die Number'], narrow_results.columns])
NarrowColumns(cols) == [i \in DOMAIN cols |-> <<"Die Number", cols[i]>>]

\* a mutant of ShowResultsErr: form is checked first
ShowResultsErrFormFirst(form) ==
    IF form \notin {"wide", "narrow"} THEN Game_FormError
    ELSE IF IsNone(play_results) THEN Game_NoResultsError
    ELSE NoErr
\* the checks of show_results, in the code's order
ShowResultsErr(form) ==
    IF IsNone(play_results) THEN Game_NoResultsError
    ELSE IF form \notin {"wide", "narrow"} THEN Game_FormError
    ELSE NoErr
\* the frame show_results returns: a copy, relabelled for 'narrow'
ShowResultsVal(form) ==
    IF form = "wide" THEN play_results
    ELSE [columns |-> NarrowColumns(play_results.columns),
          rows |-> play_results.rows]

\* Game.show_results
ShowResults(form) ==
    LET e == ShowResultsErr(form) IN
    /\ Len(dice) > 0
    /\ ret' = [op |-> "show_results", form |-> form, err |-> e,
               val |-> IF e = NoErr THEN ShowResultsVal(form) ELSE None]
    /\ UNCHANGED <<faces, die_df, dice, play_results, last_play>>

\* two dice of any valid faces, constructed, no game yet
InitCtor ==
    /\ faces \in [DieIds -> {fs \in FaceArrays : DieInitOk(fs)}]
    /\ die_df = [d \in DieIds |-> DieInitDf(faces[d])]
    /\ dice = <<>>
    /\ play_results = None
    /\ last_play = NoPlay
    /\ ret = [op |-> "init", err |-> NoErr]

NextCtor ==
    \/ \E d \in DieIds : ChangeWeight(d, 1, [type |-> "int", v |-> 0])
    \/ \E arg \in DiceArgs : GameInit(arg)
    \/ Play(1)

SpecCtor == InitCtor /\ [][NextCtor]_vars

\* ------------------------------------------------------------- Analyzer
RECURSIVE Insert(_, _)
Insert(x, s) ==
    IF s = <<>> THEN <<x>>
    ELSE IF x <= Head(s) THEN <<x>> \o s
    ELSE <<Head(s)>> \o Insert(x, Tail(s))
RECURSIVE Sorted(_)
\* sorted(row): ascending
Sorted(s) == IF s = <<>> THEN <<>> ELSE Insert(Head(s), Sorted(Tail(s)))

\* the tally of value_counts: one entry per distinct key, in first-seen order
TallyAdd(acc, k) ==
    IF \E i \in DOMAIN acc : acc[i].key = k
    THEN [i \in DOMAIN acc |->
            IF acc[i].key = k THEN [acc[i] EXCEPT !.count = @ + 1] ELSE acc[i]]
    ELSE Append(acc, [key |-> k, count |-> 1])
RECURSIVE TallyFrom(_, _)
TallyFrom(keys, acc) ==
    IF keys = <<>> THEN acc ELSE TallyFrom(Tail(keys), TallyAdd(acc, Head(keys)))

RECURSIVE InsertByCount(_, _)
InsertByCount(x, s) ==
    IF s = <<>> THEN <<x>>
    ELSE IF Head(s).count >= x.count THEN <<Head(s)>> \o InsertByCount(x, Tail(s))
    ELSE <<x>> \o s
RECURSIVE SortByCount(_, _)
\* the sort of value_counts: descending count, ties in first-seen order
SortByCount(s, acc) ==
    IF s = <<>> THEN acc ELSE SortByCount(Tail(s), InsertByCount(Head(s), acc))

\* pd.Series(keys).value_counts()
ValueCounts(keys) == SortByCount(TallyFrom(keys, <<>>), <<>>)

\* a mutant of JackpotRow: len(row) in place of len(set(row))
JackpotRowLen(row) == Len(row) = 1
\* len(set(row)) == 1
JackpotRow(row) == Cardinality(Range(row)) = 1

RECURSIVE JackpotCount(_)
\* the loop of jackpot over results.iterrows()
JackpotCount(rows) ==
    IF rows = <<>> THEN 0
    ELSE (IF JackpotRow(Head(rows)) THEN 1 ELSE 0) + JackpotCount(Tail(rows))

\* jackpot, combo_count and perm_count read game._play_results and call
\* iterrows() on it: on None that is an AttributeError
IterrowsErr == IF IsNone(play_results) THEN NoneType_AttributeError ELSE NoErr

\* Analyzer.jackpot
Jackpot ==
    /\ Len(dice) > 0
    /\ ret' = [op |-> "jackpot", err |-> IterrowsErr,
               val |-> IF IterrowsErr = NoErr
                       THEN JackpotCount(play_results.rows) ELSE 0]
    /\ UNCHANGED <<faces, die_df, dice, play_results, last_play>>

\* a mutant of ComboKey: the row is not sorted
ComboKeyUnsorted(row) == row
\* tuple(sorted(row))
ComboKey(row) == Sorted(row)
\* tuple(row)
PermKey(row) == row

\* the frame of combo_count: index entries and their count, in row order
ComboCountVal ==
    ValueCounts([r \in DOMAIN play_results.rows |-> ComboKey(play_results.rows[r])])
\* the frame of perm_count
PermCountVal ==
    ValueCounts([r \in DOMAIN play_results.rows |-> PermKey(play_results.rows[r])])

\* Analyzer.combo_count
ComboCount ==
    /\ Len(dice) > 0
    /\ ret' = [op |-> "combo_count", err |-> IterrowsErr,
               val |-> IF IterrowsErr = NoErr THEN ComboCountVal ELSE <<>>]
    /\ UNCHANGED <<faces, die_df, dice, play_results, last_play>>

\* Analyzer.perm_count
PermCount ==
    /\ Len(dice) > 0
    /\ ret' = [op |-> "perm_count", err |-> IterrowsErr,
               val |-> IF IterrowsErr = NoErr THEN PermCountVal ELSE <<>>]
    /\ UNCHANGED <<faces, die_df, dice, play_results, last_play>>

RECURSIVE SetSorted(_)
\* the labels of a set in ascending order, as unstack orders the new columns
SetSorted(S) ==
    IF S = {} THEN <<>>
    ELSE LET m == CHOOSE x \in S : \A y \in S : x <= y
         IN  <<m>> \o SetSorted(S \ {m})

\* value_counts of one round: the faces rolled in it and how often
RowValueCounts(row) ==
    [v \in Range(row) |-> Cardinality({i \in DOMAIN row : row[i] = v})]
\* stack().groupby(level=0).value_counts().unstack(): one column per face
\* rolled in any round; a cell is <<count>>, or <<>> (NaN) for a face the
\* round did not roll
Unstack(rows) ==
    LET cols == SetSorted(UNION {Range(rows[r]) : r \in DOMAIN rows}) IN
    [columns |-> cols,
     rows |-> [r \in DOMAIN rows |->
                 [j \in DOMAIN cols |->
                    IF cols[j] \in Range(rows[r])
                    THEN <<RowValueCounts(rows[r])[cols[j]]>> ELSE <<>>]]]
\* a mutant of Reindex: the frame is left as unstack built it
ReindexSkipped(df, newcols, fill) == df
\* df.reindex(columns=newcols, fill_value=fill)
Reindex(df, newcols, fill) ==
    [columns |-> newcols,
     rows |-> [r \in DOMAIN df.rows |->
                 [j \in DOMAIN newcols |->
                    IF \E k \in DOMAIN df.columns : df.columns[k] = newcols[j]
                    THEN df.rows[r][CHOOSE k \in DOMAIN df.columns :
                                       df.columns[k] = newcols[j]]
                    ELSE <<fill>>]]]
\* df.fillna(v).astype(int)
FillNaInt(df, v) ==
    [columns |-> df.columns,
     rows |-> [r \in DOMAIN df.rows |->
                 [j \in DOMAIN df.rows[r] |->
                    IF df.rows[r][j] = <<>> THEN v ELSE df.rows[r][j][1]]]]

\* the frame of face_count
FaceCountVal ==
    FillNaInt(Reindex(Unstack(play_results.rows), faces[dice[1]], 0), 0)

\* Analyzer.face_count: the results come from show_results('wide')
FaceCount ==
    LET e == ShowResultsErr("wide") IN
    /\ Len(dice) > 0
    /\ ret' = [op |-> "face_count", err |-> e,
               val |-> IF e = NoErr THEN FaceCountVal ELSE None]
    /\ UNCHANGED <<faces, die_df, dice, play_results, last_play>>

\* ------------------------------------------------- a Game and its Analyzer
\* the dice lists of the games analysed
GameDice == {<<1>>, <<1, 2>>}
\* the weights stored while a game is analysed
GameWeightArgs == [type : {"int"}, v : {0, 1}]

\* two dice of faces [2, 1], and a Game of one or both of them, not played
InitGame ==
    /\ faces = [d \in DieIds |-> <<2, 1>>]
    /\ die_df = [d \in DieIds |-> DieInitDf(faces[d])]
    /\ dice \in GameDice
    /\ GameInitErr([i \in DOMAIN dice |-> [type |-> "Die", id |-> dice[i]]]) = NoErr
    /\ play_results = None
    /\ last_play = NoPlay
    /\ ret = [op |-> "init", err |-> NoErr]

NextGame ==
    \/ \E d \in Range(dice), face \in {1, 2}, w \in GameWeightArgs :
          ChangeWeight(d, face, w)
    \/ \E n \in RollArgs : Play(n)
    \/ \E form \in FormArgs : ShowResults(form)
    \/ Jackpot
    \/ FaceCount
    \/ ComboCount
    \/ PermCount

SpecGame == InitGame /\ [][NextGame]_vars

\* the Analyzer over every table of up to MaxRounds rounds
NextAnalyzer ==
    \/ \E n \in 1 .. MaxRounds : Play(n)
    \/ Jackpot
    \/ FaceCount
    \/ ComboCount
    \/ PermCount

SpecAnalyzer == InitGame /\ [][NextAnalyzer]_vars

\* ------------------------------------------- the caller's hold on a result
\* the value a caller writes into a frame it was handed (no face, no weight
\* of the model's calls)
Foreign == {7}

\* the caller assigns to one cell of the frame the last call returned.  The
\* frame play returned is game._play_results itself; those of show_results
\* and of Die.show are copies.
Mutate ==
    /\ ret.op \in {"play", "show_results", "show"}
    /\ ret.err = NoErr
    /\ \E x \in Foreign :
         IF ret.op = "show"
         THEN \E f \in DOMAIN ret.val :
                /\ ret' = [op |-> "mutate", of |-> ret.op, err |-> NoErr,
                           val |-> [ret.val EXCEPT ![f] = x],
                           pre_results |-> play_results, pre_df |-> die_df]
                /\ play_results' = play_results
         ELSE \E r \in DOMAIN ret.val.rows, i \in DOMAIN dice :
                LET new == [ret.val EXCEPT !.rows[r][i] = x] IN
                /\ ret' = [op |-> "mutate", of |-> ret.op, err |-> NoErr,
                           val |-> new,
                           pre_results |-> play_results, pre_df |-> die_df]
                /\ play_results' = IF ret.op = "play" THEN new ELSE play_results
    /\ UNCHANGED <<faces, die_df, dice, last_play>>

NextAlias ==
    \/ \E n \in RollArgs : Play(n)
    \/ \E form \in FormArgs : ShowResults(form)
    \/ \E d \in Range(dice) : ShowDie(d)
    \/ Mutate

SpecAlias == InitGame /\ [][NextAlias]_vars

\* ----------------------------------------------- claims on Game.__init__
\* C3 as claimed: Game(dice) fails with TypeMismatchKind if an element is no
\* Die, with ConsistencyKind if a die's face sequence differs from the first
\* die's, and otherwise succeeds with the results table absent.
C3_CtorAsClaimed ==
    ret.op = "Game" =>
        LET a == ret.arg
            allDie == \A i \in DOMAIN a : a[i].type = "Die"
            mismatch == \E i \in DOMAIN a : faces[a[i].id] # faces[a[1].id]
        IN  /\ ~allDie => TypeMismatchKind(ret.err)
            /\ (allDie /\ mismatch) => ConsistencyKind(ret.err)
            /\ (allDie /\ ~mismatch) =>
                  /\ ret.err = NoErr
                  /\ dice = [i \in DOMAIN a |-> a[i].id]
                  /\ IsNone(play_results)

\* C3 as amended: the same for a list that is not empty; the weights of the
\* dice play no part.  Game([]) raises IndexError.
C3_Ctor ==
    ret.op = "Game" =>
        LET a == ret.arg
            allDie == \A i \in DOMAIN a : a[i].type = "Die"
            mismatch == \E i \in DOMAIN a : faces[a[i].id] # faces[a[1].id]
        IN  /\ ~allDie => TypeMismatchKind(ret.err)
            /\ (allDie /\ Len(a) > 0 /\ mismatch) => ConsistencyKind(ret.err)
            /\ (allDie /\ Len(a) > 0 /\ ~mismatch) =>
                  /\ ret.err = NoErr
                  /\ dice = [i \in DOMAIN a |-> a[i].id]
                  /\ IsNone(play_results)
            /\ (allDie /\ Len(a) = 0) => ret.err = Game_IndexError

\* Game([d1, d2]) refused for two dice whose faces are permutations of each
\* other, the game before it left as it was
C3_WitnessRefused ==
    /\ ret.op = "Game"
    /\ ConsistencyKind(ret.err)
    /\ Len(ret.arg) = 2
    /\ Range(faces[ret.arg[1].id]) = Range(faces[ret.arg[2].id])
    /\ ~IsNone(play_results)

\* Game([d1, d2]) accepted for two dice of equal faces and different weights,
\* in place of a game that had been played
C3_WitnessAccepted ==
    /\ ret.op = "Game"
    /\ ret.err = NoErr
    /\ Len(ret.arg) = 2
    /\ die_df[ret.arg[1].id] # die_df[ret.arg[2].id]
    /\ IsNone(play_results)

\* ------------------------------------ claims on Game.play and show_results
\* C4: the results table is absent exactly when no play has returned yet;
\* otherwise it is the table of the last play(n) that returned: n rows, one
\* column per die in the order of the dice, every cell a face of the dice,
\* nothing left of earlier plays.  A play that raises (num_rolls < 1, or a
\* die that cannot be rolled) leaves the table as it was.
C4_ResultsTable ==
    /\ IsNone(play_results) <=> last_play.n = 0
    /\ last_play.n > 0 =>
          /\ play_results = last_play.val
          /\ Len(play_results.rows) = last_play.n
          /\ Len(play_results.columns) = Len(dice)
          /\ \A i \in DOMAIN dice : play_results.columns[i] = Str(i - 1)
          /\ \A r \in DOMAIN play_results.rows :
                /\ Len(play_results.rows[r]) = Len(dice)
                /\ \A i \in DOMAIN dice :
                      play_results.rows[r][i] \in Range(faces[dice[1]])
    /\ ret.op = "play" =>
          /\ ret.err # NoErr <=>
                (ret.n < 1 \/ \E i \in DOMAIN dice : ~ProbsValid(die_df[dice[i]]))
          /\ ret.err # NoErr => play_results = ret.pre
          /\ ret.err = NoErr => (last_play.n = ret.n /\ ret.val = play_results)

\* a play of fewer rounds than the table it replaced
C4_Witness ==
    /\ ret.op = "play"
    /\ ret.err = NoErr
    /\ ret.pre_rows > ret.n
    /\ Len(play_results.rows) = ret.n
    /\ Len(dice) = 2

\* a play that raised in a die's roll while a table was stored
C4_WitnessFailedDraw ==
    /\ ret.op = "play"
    /\ ret.err = Numpy_ValueError
    /\ ~IsNone(play_results)

\* what C5 says of a call with form 'wide' or 'narrow': StateKind before any
\* play has returned; afterwards the cells of the last play's table, under
\* the labels of the form
ShowResultsLayouts ==
    (ret.op = "show_results" /\ ret.form \in {"wide", "narrow"}) =>
        /\ last_play.n = 0 => StateKind(ret.err)
        /\ last_play.n > 0 =>
              /\ ret.err = NoErr
              /\ Len(ret.val.rows) = last_play.n
              /\ \A r \in 1 .. last_play.n : \A i \in DOMAIN dice :
                    ret.val.rows[r][i] = last_play.val.rows[r][i]
              /\ Len(ret.val.columns) = Len(dice)
              /\ \A i \in DOMAIN dice :
                    IF ret.form = "wide"
                    THEN ret.val.columns[i] = Str(i - 1)
                    ELSE ret.val.columns[i] = <<"Die Number", Str(i - 1)>>

C5_WitnessUnplayed ==
    /\ ret.op = "show_results"
    /\ ret.form = "long"
    /\ last_play.n = 0

\* ------------------------------------------------ claims on the Analyzer
\* C6: jackpot on a game never played fails with StateKind, the error
\* show_results raises there.
C6_JackpotStateKind ==
    (ret.op = "jackpot" /\ last_play.n = 0) =>
        (StateKind(ret.err) /\ ret.err = ShowResultsErr("wide"))

\* C8: with a table present, jackpot returns the number of its rounds in
\* which all dice show the same face: between 0 and the number of rounds,
\* and the number of rounds for a game of one die.
C8_Jackpot ==
    (ret.op = "jackpot" /\ ~IsNone(play_results)) =>
        LET rows == play_results.rows
            same == {r \in DOMAIN rows :
                        \A i, j \in DOMAIN rows[r] : rows[r][i] = rows[r][j]}
        IN  /\ ret.err = NoErr
            /\ ret.val = Cardinality(same)
            /\ ret.val >= 0
            /\ ret.val <= Len(rows)
            /\ Len(dice) = 1 => ret.val = Len(rows)

\* jackpot counting some rounds of a two-dice table and not others
C8_Witness ==
    /\ ret.op = "jackpot"
    /\ ret.err = NoErr
    /\ Len(dice) = 2
    /\ ret.val = 1
    /\ Len(play_results.rows) = 2

\* how often v occurs in the sequence s
Occurrences(s, v) == Cardinality({i \in DOMAIN s : s[i] = v})
\* the same outcomes with the same multiplicities
SameBag(a, b) ==
    /\ Len(a) = Len(b)
    /\ \A v \in Range(a) \cup Range(b) : Occurrences(a, v) = Occurrences(b, v)

RECURSIVE SumCounts(_)
SumCounts(s) == IF s = <<>> THEN 0 ELSE Head(s).count + SumCounts(Tail(s))

\* C9: the counts of combo_count and of perm_count sum to the number of
\* rounds; rounds share a combo_count key iff they have the same multiset of
\* outcomes and a perm_count key iff they agree die for die; rows come in
\* non-increasing count; combo_count has no more keys than perm_count.
C9_Counts ==
    (ret.op \in {"combo_count", "perm_count"} /\ ~IsNone(play_results)) =>
        LET rows == play_results.rows
            v == ret.val
            Under(k, row) == IF ret.op = "combo_count" THEN SameBag(k, row) ELSE k = row
        IN  /\ ret.err = NoErr
            /\ SumCounts(v) = Len(rows)
            /\ \A i, j \in DOMAIN v : i # j => ~Under(v[i].key, v[j].key)
            /\ \A r \in DOMAIN rows : \E i \in DOMAIN v :
                  /\ Under(v[i].key, rows[r])
                  /\ v[i].count = Cardinality({q \in DOMAIN rows : Under(rows[q], rows[r])})
            /\ \A i \in DOMAIN v : \E r \in DOMAIN rows : Under(v[i].key, rows[r])
            /\ \A i \in 1 .. Len(v) - 1 : v[i].count >= v[i + 1].count
            /\ Len(ComboCountVal) <= Len(PermCountVal)

\* combo_count of three rounds: the first of a combination seen once, the
\* other two permutations of each other, so that the key seen second comes
\* first with count 2 while perm_count has three keys
C9_Witness ==
    /\ ret.op = "combo_count"
    /\ ret.err = NoErr
    /\ Len(dice) = 2
    /\ Len(play_results.rows) = 3
    /\ play_results.rows[2] # play_results.rows[3]
    /\ Len(ret.val) = 2
    /\ ret.val[1].count = 2
    /\ SameBag(ret.val[2].key, play_results.rows[1])
    /\ Len(PermCountVal) = 3

\* C10: face_count has one row per round and one column per face of the
\* first die, in the order the die declares them; a cell is the number of
\* dice that rolled the face in the round, 0 for a face not rolled, so a row
\* sums to the number of dice.
C10_FaceCount ==
    (ret.op = "face_count" /\ ~IsNone(play_results)) =>
        LET fs == faces[dice[1]]
            rows == play_results.rows
            v == ret.val
        IN  /\ ret.err = NoErr
            /\ v.columns = fs
            /\ Len(v.rows) = Len(rows)
            /\ \A r \in DOMAIN rows :
                  /\ Len(v.rows[r]) = Len(fs)
                  /\ \A j \in DOMAIN fs :
                        /\ v.rows[r][j] \in Nat
                        /\ v.rows[r][j] = Occurrences(rows[r], fs[j])
                  /\ SumOver(v.rows[r], DOMAIN v.rows[r]) = Len(dice)

\* face_count of a round in which both dice rolled the face declared second,
\* in a table where no round rolled the face declared first
C10_Witness ==
    /\ ret.op = "face_count"
    /\ ret.err = NoErr
    /\ Len(dice) = 2
    /\ \A r \in DOMAIN ret.val.rows : ret.val.rows[r] = <<0, 2>>
    /\ faces[dice[1]] = <<2, 1>>

\* ------------------------------------------------- claim on handed frames
\* C7: after the caller mutates a frame it was handed by Die.show, by
\* Game.play or by show_results in either form, show() and show_results
\* return what they returned before the mutation.
C7_NoInternalStorage ==
    ret.op = "mutate" =>
        /\ \A d \in DieIds : Show(d) = ret.pre_df[d]
        /\ ShowResultsErr("wide") = NoErr =>
              /\ ShowResultsVal("wide") = ret.pre_results
              /\ ShowResultsVal("narrow").rows = ret.pre_results.rows

\* ------------------------------------------- claim on the Analyzer as a view
\* a Game, its dice, its Analyzer and a caller that keeps the frames it is
\* handed
NextView ==
    \/ \E d \in Range(dice), face \in {1, 2}, w \in GameWeightArgs :
          ChangeWeight(d, face, w)
    \/ \E n \in RollArgs : Play(n)
    \/ \E form \in FormArgs : ShowResults(form)
    \/ Jackpot
    \/ FaceCount
    \/ ComboCount
    \/ PermCount
    \/ Mutate

SpecView == InitGame /\ [][NextView]_vars

\* the queries of the Analyzer
QueryOps == {"jackpot", "face_count", "combo_count", "perm_count"}
\* what a query raises or returns when called now
Answer(q) ==
    IF q = "face_count"
    THEN [err |-> ShowResultsErr("wide"),
          val |-> IF IsNone(play_results) THEN None ELSE FaceCountVal]
    ELSE [err |-> IterrowsErr,
          val |-> IF IsNone(play_results) THEN None
                  ELSE IF q = "jackpot" THEN JackpotCount(play_results.rows)
                  ELSE IF q = "combo_count" THEN ComboCountVal
                  ELSE PermCountVal]

\* C11: the Analyzer is a stateless, read-only view of its Game: a query
\* changes neither the results table nor the dice nor any weight; a query
\* repeated with no play between gives the same answer (no call other than a
\* play that returns changes what any query answers); and a query after a
\* new play answers from the new table.
C11_StatelessView ==
    [][/\ ret'.op \in QueryOps =>
             /\ UNCHANGED <<faces, die_df, dice, play_results>>
             /\ ret'.err = Answer(ret'.op).err
             /\ ret'.err = NoErr => ret'.val = Answer(ret'.op).val
       /\ ~(ret'.op = "play" /\ ret'.err = NoErr) =>
             \A q \in QueryOps : Answer(q)' = Answer(q)]_vars

====
